---- MODULE Spec2Model ----
(***************************************************************************)
(* IpSubnetCalculator 1.1.0 (src/unnamed/part_000) as a state machine.     *)
(*                                                                         *)
(* The JavaScript source works on 32-bit addresses written as four octets  *)
(* of 8 bits.  TLC's integers stop at 2^31-1, so the model keeps the shape *)
(* of the arithmetic and scales the octet: an octet has OctetBits bits, an *)
(* address AddrBits = 4 * OctetBits bits.  Every 32 of the source is       *)
(* AddrBits here, every 256 is OctetBase, every 255 is OctetBase - 1 and   *)
(* 4294967295 is MaxIp.  The signed/unsigned conversions of the bitwise    *)
(* operators (ToInt32, >>> 0, the shift count taken modulo the word size)  *)
(* are kept at that width.                                                 *)
(***************************************************************************)
EXTENDS Integers, Sequences, FiniteSets, TLC

\* Width of one octet in the model (8 in the source).
OctetBits == 1

\* Input addresses lie within EdgeSpan of 0, of the sign bit or of the top of
\* the address space; with OctetBits = 1 and EdgeSpan = 4 that is every address.
EdgeSpan == 4

\* The dotted form has four groups (the regular expression of isIp).
NumOctets == 4

\* A group of the dotted form has at most three digits (the {1,3} of isIp).
MaxGroupDigits == 3

\* Address width: the 32 of the source.
AddrBits == NumOctets * OctetBits

RECURSIVE Pow2(_)
Pow2(n) == IF n <= 0 THEN 1 ELSE 2 * Pow2(n - 1)

\* The 256 of the source.
OctetBase == Pow2(OctetBits)

\* 2^32 and 2^31 of the source: the word's modulus and its sign bit.
Modulus == Pow2(AddrBits)
SignBit == Pow2(AddrBits - 1)

\* The 4294967295 of the source.
MaxIp == Modulus - 1

\* Valid integer addresses.
Addr == 0 .. MaxIp

(***************************************************************************)
(* JavaScript values.  Every value is a record with the same fields, so    *)
(* that any two can be compared.  A number is an integer (kind "int", the  *)
(* value in n), a non-integral number n + 1/2 (kind "frac") or NaN.        *)
(***************************************************************************)
Num(n)    == [type |-> "number", kind |-> "int", n |-> n, s |-> <<>>]
Frac(n)   == [type |-> "number", kind |-> "frac", n |-> n, s |-> <<>>]
NaN       == [type |-> "number", kind |-> "nan", n |-> 0, s |-> <<>>]
Str(s)    == [type |-> "string", kind |-> "-", n |-> 0, s |-> s]
Null      == [type |-> "null", kind |-> "-", n |-> 0, s |-> <<>>]
False     == [type |-> "boolean", kind |-> "false", n |-> 0, s |-> <<>>]
True      == [type |-> "boolean", kind |-> "true", n |-> 0, s |-> <<>>]
Undefined == [type |-> "undefined", kind |-> "-", n |-> 0, s |-> <<>>]
Infinity  == [type |-> "number", kind |-> "inf", n |-> 0, s |-> <<>>]

\* A thrown Error, as the outcome of a call.
Throw == [exception |-> "Error"]
IsThrow(v) == DOMAIN v = {"exception"}

\* An array of block descriptors, as the outcome of a call.
Array(items) == [array |-> items]
IsArray(v) == DOMAIN v = {"array"}
IsNull(v) == DOMAIN v = DOMAIN Null /\ v = Null

(***************************************************************************)
(* Bitwise arithmetic of JavaScript at the model's width.                  *)
(***************************************************************************)
\* x >>> 0 : ToUint32.
ToUint32(x) == x % Modulus

\* ToInt32: the operand conversion of & and <<.
ToInt32(x) == LET u == x % Modulus
              IN  IF u >= SignBit THEN u - Modulus ELSE u

RECURSIVE BitAnd(_, _)
BitAnd(a, b) == IF a = 0 \/ b = 0 THEN 0
                ELSE (a % 2) * (b % 2) + 2 * BitAnd(a \div 2, b \div 2)

\* a & b : both operands to ToInt32, the result a signed word.
JsAnd(a, b) == ToInt32(BitAnd(ToUint32(a), ToUint32(b)))

\* a << k : the shift count is taken modulo the word size, the result is a signed word.
JsShl(a, k) == ToInt32(ToUint32(a) * Pow2(k % AddrBits))

(***************************************************************************)
(* Decimal numerals.                                                       *)
(***************************************************************************)
Digits == <<"0", "1", "2", "3", "4", "5", "6", "7", "8", "9">>
DigitChars == {Digits[i] : i \in 1 .. 10}
DigitVal(c) == (CHOOSE i \in 1 .. 10 : Digits[i] = c) - 1

\* parseInt( g, 10 ) and +g on a string of decimal digits.
RECURSIVE ParseDigits(_)
ParseDigits(g) == IF g = <<>> THEN 0
                  ELSE 10 * ParseDigits(SubSeq(g, 1, Len(g) - 1)) + DigitVal(g[Len(g)])

\* Number to string of a non-negative integer: decimal, no leading zeros.
RECURSIVE NumberToString(_)
NumberToString(n) == IF n < 10 THEN <<Digits[n + 1]>>
                     ELSE NumberToString(n \div 10) \o <<Digits[(n % 10) + 1]>>

\* s.split( '.' )
RECURSIVE Split(_)
Split(s) == IF \A i \in 1 .. Len(s) : s[i] # "." THEN <<s>>
            ELSE LET k == CHOOSE i \in 1 .. Len(s) :
                              s[i] = "." /\ \A j \in 1 .. i - 1 : s[j] # "."
                 IN  <<SubSeq(s, 1, k - 1)>> \o Split(SubSeq(s, k + 1, Len(s)))

(***************************************************************************)
(* isIp, isDecimalIp, toDecimal, toString                                  *)
(***************************************************************************)
\* /^([0-9]{1,3})\.([0-9]{1,3})\.([0-9]{1,3})\.([0-9]{1,3})$/
RegexMatch(s) == LET parts == Split(s)
                 IN  /\ Len(parts) = NumOctets
                     /\ \A i \in 1 .. NumOctets :
                            /\ Len(parts[i]) \in 1 .. MaxGroupDigits
                            /\ \A j \in 1 .. Len(parts[i]) : parts[i][j] \in DigitChars

\* Mutant of isIp: the groups are not tested against the octet range.
isIp_NoOctetTest(ip) == IF ip.type # "string" THEN FALSE
                        ELSE RegexMatch(ip.s)

isIp(ip) == IF ip.type # "string" THEN FALSE
            ELSE IF ~RegexMatch(ip.s) THEN FALSE
            ELSE \A i \in 1 .. NumOctets :
                     LET n == ParseDigits(Split(ip.s)[i])
                     IN  ~((n > OctetBase - 1) \/ (n < 0))

\* Mutant of isDecimalIp: the test against the top of the address range is missing.
isDecimalIp_NoUpperBound(ipNum) == /\ ipNum.type = "number"
                                   /\ ipNum.kind = "int"
                                   /\ ipNum.n >= 0

isDecimalIp(ipNum) == /\ ipNum.type = "number"
                      /\ ipNum.kind = "int"
                      /\ ipNum.n >= 0
                      /\ ipNum.n <= MaxIp

\* Mutant of toDecimal: the last multiplication by the octet base is missing.
toDecimal_MissingShift(ipString) ==
    IF ipString.type = "number" /\ isDecimalIp(ipString) THEN ipString
    ELSE IF isIp(ipString) = FALSE THEN Throw
    ELSE LET d == Split(ipString.s)
         IN  Num((((ParseDigits(d[1]) * OctetBase) + ParseDigits(d[2])) * OctetBase
                      + ParseDigits(d[3])) + ParseDigits(d[4]))

\* Mutant of toDecimal: a value that is no address yields NaN, nothing is thrown.
toDecimal_Silent(ipString) ==
    IF ipString.type = "number" /\ isDecimalIp(ipString) THEN ipString
    ELSE IF isIp(ipString) = FALSE THEN NaN
    ELSE LET d == Split(ipString.s)
         IN  Num(((((ParseDigits(d[1]) * OctetBase) + ParseDigits(d[2])) * OctetBase
                      + ParseDigits(d[3])) * OctetBase) + ParseDigits(d[4]))

toDecimal(ipString) ==
    IF ipString.type = "number" /\ isDecimalIp(ipString) THEN ipString
    ELSE IF isIp(ipString) = FALSE THEN Throw
    ELSE LET d == Split(ipString.s)
         IN  Num(((((ParseDigits(d[1]) * OctetBase) + ParseDigits(d[2])) * OctetBase
                      + ParseDigits(d[3])) * OctetBase) + ParseDigits(d[4]))

\* Mutant of toString's loop: each octet is appended, not prepended.
RECURSIVE toStringLoop_Reversed(_, _, _)
toStringLoop_Reversed(i, ipNum, d) ==
    IF i > 0
    THEN LET next == ipNum \div OctetBase
         IN  toStringLoop_Reversed(i - 1, next,
                                   d \o <<".">> \o NumberToString(next % OctetBase))
    ELSE d

RECURSIVE toStringLoop(_, _, _)
toStringLoop(i, ipNum, d) ==
    IF i > 0
    THEN LET next == ipNum \div OctetBase
         IN  toStringLoop(i - 1, next, NumberToString(next % OctetBase) \o <<".">> \o d)
    ELSE d

\* Mutant of toString: a string is converted and written anew, not returned as it is.
toString_Rewritten(ipNum) ==
    LET num == IF ipNum.type = "string" /\ isIp(ipNum) THEN toDecimal(ipNum) ELSE ipNum
    IN  IF isDecimalIp(num) = FALSE THEN Throw
        ELSE Str(toStringLoop(NumOctets - 1, num.n, NumberToString(num.n % OctetBase)))

toString(ipNum) ==
    IF ipNum.type = "string" /\ isIp(ipNum) THEN ipNum
    ELSE IF isDecimalIp(ipNum) = FALSE THEN Throw
    ELSE Str(toStringLoop(NumOctets - 1, ipNum.n, NumberToString(ipNum.n % OctetBase)))

(***************************************************************************)
(* getPrefixMask, getMask, getMaskRange, getOptimalRange                   *)
(***************************************************************************)
\* Mutant of getPrefixMask's loop: the shift is 32 - i, one too far.
RECURSIVE getPrefixMaskLoop_ShiftOff(_, _, _)
getPrefixMaskLoop_ShiftOff(i, prefixSize, mask) ==
    IF i < prefixSize
    THEN getPrefixMaskLoop_ShiftOff(i + 1, prefixSize,
                                    mask + ToUint32(JsShl(1, AddrBits - i)))
    ELSE mask

RECURSIVE getPrefixMaskLoop(_, _, _)
getPrefixMaskLoop(i, prefixSize, mask) ==
    IF i < prefixSize
    THEN getPrefixMaskLoop(i + 1, prefixSize,
                           mask + ToUint32(JsShl(1, AddrBits - (i + 1))))
    ELSE mask

getPrefixMask(prefixSize) == getPrefixMaskLoop(0, prefixSize, 0)

RECURSIVE getMaskLoop(_, _, _)
getMaskLoop(i, maskSize, mask) ==
    IF i < maskSize
    THEN getMaskLoop(i + 1, maskSize, mask + ToUint32(JsShl(1, i)))
    ELSE mask

\* Mutant of getMask: the loop runs once too often (i <= maskSize).
getMask_OffByOne(maskSize) == getMaskLoop(0, maskSize + 1, 0)

getMask(maskSize) == getMaskLoop(0, maskSize, 0)

\* Mutant of getMaskRange: ipLow is left a signed word (no >>> 0).
getMaskRange_Signed(ipNum, prefixSize) ==
    LET prefixMask == getPrefixMask(prefixSize)
        lowMask    == getMask(AddrBits - prefixSize)
        ipLow      == JsAnd(ipNum, prefixMask)
        ipHigh     == ToUint32(ToUint32(JsAnd(ipNum, prefixMask)) + lowMask)
        ipLowStr        == toString(Num(ipLow))
        ipHighStr       == toString(Num(ipHigh))
        prefixMaskStr   == toString(Num(prefixMask))
        invertedMaskStr == toString(Num(lowMask))
    IN  IF IsThrow(ipLowStr) \/ IsThrow(ipHighStr)
           \/ IsThrow(prefixMaskStr) \/ IsThrow(invertedMaskStr)
        THEN Throw
        ELSE [ipLow           |-> ipLow,
              ipLowStr        |-> ipLowStr.s,
              ipHigh          |-> ipHigh,
              ipHighStr       |-> ipHighStr.s,
              prefixMask      |-> prefixMask,
              prefixMaskStr   |-> prefixMaskStr.s,
              prefixSize      |-> prefixSize,
              invertedMask    |-> lowMask,
              invertedMaskStr |-> invertedMaskStr.s,
              invertedSize    |-> AddrBits - prefixSize]

getMaskRange(ipNum, prefixSize) ==
    LET prefixMask == getPrefixMask(prefixSize)
        lowMask    == getMask(AddrBits - prefixSize)
        ipLow      == ToUint32(JsAnd(ipNum, prefixMask))
        ipHigh     == ToUint32(ToUint32(JsAnd(ipNum, prefixMask)) + lowMask)
        ipLowStr        == toString(Num(ipLow))
        ipHighStr       == toString(Num(ipHigh))
        prefixMaskStr   == toString(Num(prefixMask))
        invertedMaskStr == toString(Num(lowMask))
    IN  IF IsThrow(ipLowStr) \/ IsThrow(ipHighStr)
           \/ IsThrow(prefixMaskStr) \/ IsThrow(invertedMaskStr)
        THEN Throw
        ELSE [ipLow           |-> ipLow,
              ipLowStr        |-> ipLowStr.s,
              ipHigh          |-> ipHigh,
              ipHighStr       |-> ipHighStr.s,
              prefixMask      |-> prefixMask,
              prefixMaskStr   |-> prefixMaskStr.s,
              prefixSize      |-> prefixSize,
              invertedMask    |-> lowMask,
              invertedMaskStr |-> invertedMaskStr.s,
              invertedSize    |-> AddrBits - prefixSize]

\* Mutant of getOptimalRange's loop: the block may not end at ipEndNum (< for <=).
RECURSIVE getOptimalRangeLoop_Strict(_, _, _, _)
getOptimalRangeLoop_Strict(prefixSize, ipNum, ipEndNum, optimalRange) ==
    IF prefixSize >= 0
    THEN LET maskRange == getMaskRange(ipNum, prefixSize)
         IN  IF IsThrow(maskRange) THEN Throw
             ELSE IF (maskRange.ipLow = ipNum) /\ (maskRange.ipHigh < ipEndNum)
             THEN getOptimalRangeLoop_Strict(prefixSize - 1, ipNum, ipEndNum, maskRange)
             ELSE optimalRange
    ELSE optimalRange

\* Mutant of getOptimalRange's loop: the end of the range is not tested.
RECURSIVE getOptimalRangeLoop_NoEndTest(_, _, _, _)
getOptimalRangeLoop_NoEndTest(prefixSize, ipNum, ipEndNum, optimalRange) ==
    IF prefixSize >= 0
    THEN LET maskRange == getMaskRange(ipNum, prefixSize)
         IN  IF IsThrow(maskRange) THEN Throw
             ELSE IF maskRange.ipLow = ipNum
             THEN getOptimalRangeLoop_NoEndTest(prefixSize - 1, ipNum, ipEndNum, maskRange)
             ELSE optimalRange
    ELSE optimalRange

\* Mutant of getOptimalRange's loop: the loop stops above prefix size 0 (> for >=).
RECURSIVE getOptimalRangeLoop_StopAtOne(_, _, _, _)
getOptimalRangeLoop_StopAtOne(prefixSize, ipNum, ipEndNum, optimalRange) ==
    IF prefixSize > 0
    THEN LET maskRange == getMaskRange(ipNum, prefixSize)
         IN  IF IsThrow(maskRange) THEN Throw
             ELSE IF (maskRange.ipLow = ipNum) /\ (maskRange.ipHigh <= ipEndNum)
             THEN getOptimalRangeLoop_StopAtOne(prefixSize - 1, ipNum, ipEndNum, maskRange)
             ELSE optimalRange
    ELSE optimalRange

\* Mutant of getOptimalRange's loop: the search stops at the first block that fits.
getOptimalRangeLoop_FirstFit(prefixSize, ipNum, ipEndNum, optimalRange) ==
    LET maskRange == getMaskRange(ipNum, prefixSize)
    IN  IF IsThrow(maskRange) THEN Throw
        ELSE IF (maskRange.ipLow = ipNum) /\ (maskRange.ipHigh <= ipEndNum)
        THEN maskRange
        ELSE optimalRange

\* Mutant of getOptimalRange's loop: the prefix size descends by two.
RECURSIVE getOptimalRangeLoop_StepTwo(_, _, _, _)
getOptimalRangeLoop_StepTwo(prefixSize, ipNum, ipEndNum, optimalRange) ==
    IF prefixSize >= 0
    THEN LET maskRange == getMaskRange(ipNum, prefixSize)
         IN  IF IsThrow(maskRange) THEN Throw
             ELSE IF (maskRange.ipLow = ipNum) /\ (maskRange.ipHigh <= ipEndNum)
             THEN getOptimalRangeLoop_StepTwo(prefixSize - 2, ipNum, ipEndNum, maskRange)
             ELSE optimalRange
    ELSE optimalRange

RECURSIVE getOptimalRangeLoop(_, _, _, _)
getOptimalRangeLoop(prefixSize, ipNum, ipEndNum, optimalRange) ==
    IF prefixSize >= 0
    THEN LET maskRange == getMaskRange(ipNum, prefixSize)
         IN  IF IsThrow(maskRange) THEN Throw
             ELSE IF (maskRange.ipLow = ipNum) /\ (maskRange.ipHigh <= ipEndNum)
             THEN getOptimalRangeLoop(prefixSize - 1, ipNum, ipEndNum, maskRange)
             ELSE optimalRange
    ELSE optimalRange

\* Mutant of getOptimalRange: the descent starts one below the address width.
getOptimalRange_StartBelowWidth(ipNum, ipEndNum) ==
    getOptimalRangeLoop(AddrBits - 1, ipNum, ipEndNum, Null)

getOptimalRange(ipNum, ipEndNum) == getOptimalRangeLoop(AddrBits, ipNum, ipEndNum, Null)

(***************************************************************************)
(* calculateCIDRPrefix's search for the prefix size, lines 161-171.        *)
(***************************************************************************)
\* Mutant of calculateCIDRPrefix's loop: newPrefix is left a signed word (no >>> 0).
RECURSIVE calculateCIDRPrefixLoop_Signed(_, _, _)
calculateCIDRPrefixLoop_Signed(prefixSize, prefix, subnetMaskNum) ==
    IF prefixSize < AddrBits
    THEN LET newPrefix == prefix + JsShl(1, AddrBits - (prefixSize + 1))
         IN  IF ToUint32(JsAnd(subnetMaskNum, newPrefix)) # newPrefix
             THEN prefixSize
             ELSE calculateCIDRPrefixLoop_Signed(prefixSize + 1, newPrefix, subnetMaskNum)
    ELSE prefixSize

\* Mutant of calculateCIDRPrefix's loop: the search ends one short of the width.
RECURSIVE calculateCIDRPrefixLoop_StopEarly(_, _, _)
calculateCIDRPrefixLoop_StopEarly(prefixSize, prefix, subnetMaskNum) ==
    IF prefixSize < AddrBits - 1
    THEN LET newPrefix == ToUint32(prefix + JsShl(1, AddrBits - (prefixSize + 1)))
         IN  IF ToUint32(JsAnd(subnetMaskNum, newPrefix)) # newPrefix
             THEN prefixSize
             ELSE calculateCIDRPrefixLoop_StopEarly(prefixSize + 1, newPrefix, subnetMaskNum)
    ELSE prefixSize

RECURSIVE calculateCIDRPrefixLoop(_, _, _)
calculateCIDRPrefixLoop(prefixSize, prefix, subnetMaskNum) ==
    IF prefixSize < AddrBits
    THEN LET newPrefix == ToUint32(prefix + JsShl(1, AddrBits - (prefixSize + 1)))
         IN  IF ToUint32(JsAnd(subnetMaskNum, newPrefix)) # newPrefix
             THEN prefixSize
             ELSE calculateCIDRPrefixLoop(prefixSize + 1, newPrefix, subnetMaskNum)
    ELSE prefixSize

(***************************************************************************)
(* IpSubnetCalculator 0.1.0 (src/lib/ip-subnet-calculator.js): the same    *)
(* functions without isIp and isDecimalIp, without any test of the values  *)
(* they are given and without try/catch.                                   *)
(***************************************************************************)
\* String.prototype.trim, as the conversion of a string to a number applies it.
RECURSIVE Trim(_)
Trim(s) == IF s = <<>> THEN s
           ELSE IF s[1] = " " THEN Trim(SubSeq(s, 2, Len(s)))
           ELSE IF s[Len(s)] = " " THEN Trim(SubSeq(s, 1, Len(s) - 1))
           ELSE s

\* +g for a component g of the split string: blanks around it are dropped, the
\* empty string is 0, a string of decimal digits is its value, any other
\* string of the input alphabet (letters, inner blanks) is NaN.
StringToNumber(g) ==
    LET trimmed == Trim(g)
    IN  IF trimmed = <<>> THEN Num(0)
        ELSE IF \A j \in 1 .. Len(trimmed) : trimmed[j] \in DigitChars
        THEN Num(ParseDigits(trimmed))
        ELSE NaN

\* a < b and a <= b on numbers: false when either is NaN.
JsLess(a, b) == a.kind = "int" /\ b.kind = "int" /\ a.n < b.n
JsLessEq(a, b) == a.kind = "int" /\ b.kind = "int" /\ a.n <= b.n

\* The operand of & : NaN is taken as 0.
BitwiseOperand(v) == IF v.kind = "int" THEN v.n ELSE 0

\* Mutant of the legacy toDecimal: the last multiplication by the octet base is missing.
Legacy_toDecimal_MissingShift(ipString) ==
    IF ipString.type # "string" THEN Throw
    ELSE LET parts == Split(ipString.s)
             d == [i \in 1 .. NumOctets |->
                      IF i <= Len(parts) THEN StringToNumber(parts[i]) ELSE NaN]
         IN  IF \E i \in 1 .. NumOctets : d[i] = NaN THEN NaN
             ELSE Num((((d[1].n * OctetBase) + d[2].n) * OctetBase + d[3].n) + d[4].n)

\* toDecimal of 0.1.0, lines 317-321: a value without split (anything but a
\* string) is a TypeError; d[ i ] beyond the components is undefined, +undefined
\* is NaN, and NaN in any place makes the sum NaN.
Legacy_toDecimal(ipString) ==
    IF ipString.type # "string" THEN Throw
    ELSE LET parts == Split(ipString.s)
             d == [i \in 1 .. NumOctets |->
                      IF i <= Len(parts) THEN StringToNumber(parts[i]) ELSE NaN]
         IN  IF \E i \in 1 .. NumOctets : d[i] = NaN THEN NaN
             ELSE Num(((((d[1].n * OctetBase) + d[2].n) * OctetBase + d[3].n) * OctetBase)
                          + d[4].n)

RECURSIVE Legacy_toStringLoop(_, _, _)
Legacy_toStringLoop(i, ipNum, d) ==
    IF i > 0
    THEN LET next == ipNum \div OctetBase
         IN  Legacy_toStringLoop(i - 1, next,
                                 NumberToString(next % OctetBase) \o <<".">> \o d)
    ELSE d

\* toString of 0.1.0, lines 332-343, on a non-negative integer: no test, no throw.
Legacy_toString(ipNum) ==
    Legacy_toStringLoop(NumOctets - 1, ipNum, NumberToString(ipNum % OctetBase))

RECURSIVE Legacy_getPrefixMaskLoop(_, _, _)
Legacy_getPrefixMaskLoop(i, prefixSize, mask) ==
    IF i < prefixSize
    THEN Legacy_getPrefixMaskLoop(i + 1, prefixSize,
                                  mask + ToUint32(JsShl(1, AddrBits - (i + 1))))
    ELSE mask

Legacy_getPrefixMask(prefixSize) == Legacy_getPrefixMaskLoop(0, prefixSize, 0)

RECURSIVE Legacy_getMaskLoop(_, _, _)
Legacy_getMaskLoop(i, maskSize, mask) ==
    IF i < maskSize
    THEN Legacy_getMaskLoop(i + 1, maskSize, mask + ToUint32(JsShl(1, i)))
    ELSE mask

Legacy_getMask(maskSize) == Legacy_getMaskLoop(0, maskSize, 0)

\* getMaskRange of 0.1.0, lines 241-263; ipNum is a number, possibly NaN.
Legacy_getMaskRange(ipNum, prefixSize) ==
    LET prefixMask == Legacy_getPrefixMask(prefixSize)
        lowMask    == Legacy_getMask(AddrBits - prefixSize)
        ipLow      == ToUint32(JsAnd(BitwiseOperand(ipNum), prefixMask))
        ipHigh     == ToUint32(ToUint32(JsAnd(BitwiseOperand(ipNum), prefixMask)) + lowMask)
    IN  [ipLow           |-> ipLow,
         ipLowStr        |-> Legacy_toString(ipLow),
         ipHigh          |-> ipHigh,
         ipHighStr       |-> Legacy_toString(ipHigh),
         prefixMask      |-> prefixMask,
         prefixMaskStr   |-> Legacy_toString(prefixMask),
         prefixSize      |-> prefixSize,
         invertedMask    |-> lowMask,
         invertedMaskStr |-> Legacy_toString(lowMask),
         invertedSize    |-> AddrBits - prefixSize]

RECURSIVE Legacy_getOptimalRangeLoop(_, _, _, _)
Legacy_getOptimalRangeLoop(prefixSize, ipNum, ipEndNum, optimalRange) ==
    IF prefixSize >= 0
    THEN LET maskRange == Legacy_getMaskRange(Num(ipNum), prefixSize)
         IN  IF (maskRange.ipLow = ipNum) /\ (maskRange.ipHigh <= ipEndNum)
             THEN Legacy_getOptimalRangeLoop(prefixSize - 1, ipNum, ipEndNum, maskRange)
             ELSE optimalRange
    ELSE optimalRange

\* getOptimalRange of 0.1.0, lines 199-219, on two integers.
Legacy_getOptimalRange(ipNum, ipEndNum) ==
    Legacy_getOptimalRangeLoop(AddrBits, ipNum, ipEndNum, Null)

\* The search for the prefix size in calculateCIDRPrefix of 0.1.0; the mask is
\* a number, possibly NaN.
RECURSIVE Legacy_calculateCIDRPrefixLoop(_, _, _)
Legacy_calculateCIDRPrefixLoop(prefixSize, prefix, subnetMaskNum) ==
    IF prefixSize < AddrBits
    THEN LET newPrefix == ToUint32(prefix + JsShl(1, AddrBits - (prefixSize + 1)))
         IN  IF ToUint32(JsAnd(BitwiseOperand(subnetMaskNum), newPrefix)) # newPrefix
             THEN prefixSize
             ELSE Legacy_calculateCIDRPrefixLoop(prefixSize + 1, newPrefix, subnetMaskNum)
    ELSE prefixSize

\* The values 0.1.0 tests its arguments against: '', null, false.
Sentinel(v) == v = Str(<<>>) \/ v = Null \/ v = False

(***************************************************************************)
(* State: one call of a function of IpSubnetCalculator.                    *)
(***************************************************************************)
VARIABLES
    pc,               \* "call": entered; "loop": in calculate's while; "done": returned
    op,               \* the function that was called
    args,             \* its two arguments (Undefined where it takes one)
    ipStartNum,       \* calculate's locals
    ipEndNum,
    ipCurNum,
    rangeCollection,
    result            \* what the call returned (or Throw); Undefined until it returns

vars == <<pc, op, args, ipStartNum, ipEndNum, ipCurNum, rangeCollection, result>>

\* Mutant of calculate's entry: the test for an inverted range is missing.
calculate_Enter_NoInvertedTest ==
    /\ pc = "call" /\ op = "calculate"
    /\ LET s == toDecimal(args[1])
           e == IF IsThrow(s) THEN Throw ELSE toDecimal(args[2])
       IN  IF IsThrow(s) \/ IsThrow(e)
           THEN /\ result' = Null /\ pc' = "done"
                /\ UNCHANGED <<ipStartNum, ipEndNum, ipCurNum>>
           ELSE /\ ipStartNum' = s.n /\ ipEndNum' = e.n
                /\ ipCurNum' = s.n /\ pc' = "loop" /\ UNCHANGED result
    /\ UNCHANGED <<op, args, rangeCollection>>

\* calculate, lines 66-86: convert both arguments, reject an inverted range.
calculate_Enter ==
    /\ pc = "call" /\ op = "calculate"
    /\ LET s == toDecimal(args[1])
           e == IF IsThrow(s) THEN Throw ELSE toDecimal(args[2])
       IN  IF IsThrow(s) \/ IsThrow(e)
           THEN /\ result' = Null /\ pc' = "done"
                /\ UNCHANGED <<ipStartNum, ipEndNum, ipCurNum>>
           ELSE /\ ipStartNum' = s.n /\ ipEndNum' = e.n
                /\ IF e.n < s.n
                   THEN result' = Null /\ pc' = "done" /\ UNCHANGED ipCurNum
                   ELSE ipCurNum' = s.n /\ pc' = "loop" /\ UNCHANGED result
    /\ UNCHANGED <<op, args, rangeCollection>>

\* Mutant of calculate's loop: the cursor is kept in the unsigned word ( >>> 0 ).
calculate_Loop_Wrap ==
    /\ pc = "loop" /\ ipCurNum <= ipEndNum
    /\ LET optimalRange == getOptimalRange(ipCurNum, ipEndNum)
       IN  IF IsThrow(optimalRange)
           THEN result' = Throw /\ pc' = "done" /\ UNCHANGED <<rangeCollection, ipCurNum>>
           ELSE IF IsNull(optimalRange)
           THEN result' = Null /\ pc' = "done" /\ UNCHANGED <<rangeCollection, ipCurNum>>
           ELSE /\ rangeCollection' = Append(rangeCollection, optimalRange)
                /\ ipCurNum' = ToUint32(optimalRange.ipHigh + 1)
                /\ UNCHANGED <<pc, result>>
    /\ UNCHANGED <<op, args, ipStartNum, ipEndNum>>

\* calculate, lines 88-100: one iteration of the while loop.
calculate_Loop ==
    /\ pc = "loop" /\ ipCurNum <= ipEndNum
    /\ LET optimalRange == getOptimalRange(ipCurNum, ipEndNum)
       IN  IF IsThrow(optimalRange)
           THEN result' = Throw /\ pc' = "done" /\ UNCHANGED <<rangeCollection, ipCurNum>>
           ELSE IF IsNull(optimalRange)
           THEN result' = Null /\ pc' = "done" /\ UNCHANGED <<rangeCollection, ipCurNum>>
           ELSE /\ rangeCollection' = Append(rangeCollection, optimalRange)
                /\ ipCurNum' = optimalRange.ipHigh + 1
                /\ UNCHANGED <<pc, result>>
    /\ UNCHANGED <<op, args, ipStartNum, ipEndNum>>

\* calculate, line 102: the loop test fails, the collection is returned.
calculate_Return ==
    /\ pc = "loop" /\ ~(ipCurNum <= ipEndNum)
    /\ result' = Array(rangeCollection)
    /\ pc' = "done"
    /\ UNCHANGED <<op, args, ipStartNum, ipEndNum, ipCurNum, rangeCollection>>

\* calculateSubnetMask, lines 116-130.
calculateSubnetMask ==
    /\ pc = "call" /\ op = "calculateSubnetMask"
    /\ LET ipNum == toDecimal(args[1])
       IN  result' = IF IsThrow(ipNum) THEN Null
                     ELSE getMaskRange(ipNum.n, args[2].n)
    /\ pc' = "done"
    /\ UNCHANGED <<op, args, ipStartNum, ipEndNum, ipCurNum, rangeCollection>>

\* Mutant of calculateCIDRPrefix: a mask given as a string is not converted; the
\* & of the loop takes it as NaN, that is 0.
calculateCIDRPrefix_MaskUnconverted ==
    /\ pc = "call" /\ op = "calculateCIDRPrefix"
    /\ LET ipNum == toDecimal(args[1])
           subnetMaskNum == IF IsThrow(ipNum) THEN Throw
                            ELSE IF IsThrow(toDecimal(args[2])) THEN Throw
                            ELSE IF args[2].type = "string" THEN Num(0)
                            ELSE args[2]
       IN  result' = IF IsThrow(ipNum) \/ IsThrow(subnetMaskNum) THEN Null
                     ELSE getMaskRange(ipNum.n,
                                       calculateCIDRPrefixLoop(0, 0, subnetMaskNum.n))
    /\ pc' = "done"
    /\ UNCHANGED <<op, args, ipStartNum, ipEndNum, ipCurNum, rangeCollection>>

\* Mutant of calculateCIDRPrefix: a mask with a one-bit below its leading run of
\* one-bits is answered with null.
calculateCIDRPrefix_RejectsMalformed ==
    /\ pc = "call" /\ op = "calculateCIDRPrefix"
    /\ LET ipNum == toDecimal(args[1])
           subnetMaskNum == IF IsThrow(ipNum) THEN Throw ELSE toDecimal(args[2])
       IN  result' = IF IsThrow(ipNum) \/ IsThrow(subnetMaskNum) THEN Null
                     ELSE LET prefixSize == calculateCIDRPrefixLoop(0, 0, subnetMaskNum.n)
                          IN  IF subnetMaskNum.n # getPrefixMask(prefixSize) THEN Null
                              ELSE getMaskRange(ipNum.n, prefixSize)
    /\ pc' = "done"
    /\ UNCHANGED <<op, args, ipStartNum, ipEndNum, ipCurNum, rangeCollection>>

\* calculateCIDRPrefix, lines 143-174.
calculateCIDRPrefix ==
    /\ pc = "call" /\ op = "calculateCIDRPrefix"
    /\ LET ipNum == toDecimal(args[1])
           subnetMaskNum == IF IsThrow(ipNum) THEN Throw ELSE toDecimal(args[2])
       IN  result' = IF IsThrow(ipNum) \/ IsThrow(subnetMaskNum) THEN Null
                     ELSE getMaskRange(ipNum.n,
                                       calculateCIDRPrefixLoop(0, 0, subnetMaskNum.n))
    /\ pc' = "done"
    /\ UNCHANGED <<op, args, ipStartNum, ipEndNum, ipCurNum, rangeCollection>>

\* A direct call of toDecimal, lines 366-381.
toDecimal_Call ==
    /\ pc = "call" /\ op = "toDecimal"
    /\ result' = toDecimal(args[1])
    /\ pc' = "done"
    /\ UNCHANGED <<op, args, ipStartNum, ipEndNum, ipCurNum, rangeCollection>>

\* A direct call of toString, lines 393-414.
toString_Call ==
    /\ pc = "call" /\ op = "toString"
    /\ result' = toString(args[1])
    /\ pc' = "done"
    /\ UNCHANGED <<op, args, ipStartNum, ipEndNum, ipCurNum, rangeCollection>>

\* A direct call of isIp, lines 312-337.
isIp_Call ==
    /\ pc = "call" /\ op = "isIp"
    /\ result' = IF isIp(args[1]) THEN True ELSE False
    /\ pc' = "done"
    /\ UNCHANGED <<op, args, ipStartNum, ipEndNum, ipCurNum, rangeCollection>>

\* A direct call of isDecimalIp, lines 346-354.
isDecimalIp_Call ==
    /\ pc = "call" /\ op = "isDecimalIp"
    /\ result' = IF isDecimalIp(args[1]) THEN True ELSE False
    /\ pc' = "done"
    /\ UNCHANGED <<op, args, ipStartNum, ipEndNum, ipCurNum, rangeCollection>>

\* A direct call of getPrefixMask, lines 271-282.
getPrefixMask_Call ==
    /\ pc = "call" /\ op = "getPrefixMask"
    /\ result' = Num(getPrefixMask(args[1].n))
    /\ pc' = "done"
    /\ UNCHANGED <<op, args, ipStartNum, ipEndNum, ipCurNum, rangeCollection>>

\* A direct call of getMask, lines 292-303.
getMask_Call ==
    /\ pc = "call" /\ op = "getMask"
    /\ result' = Num(getMask(args[1].n))
    /\ pc' = "done"
    /\ UNCHANGED <<op, args, ipStartNum, ipEndNum, ipCurNum, rangeCollection>>

\* A direct call of getOptimalRange on two integers, lines 197-217.
getOptimalRange_Call ==
    /\ pc = "call" /\ op = "getOptimalRange"
    /\ result' = getOptimalRange(args[1].n, args[2].n)
    /\ pc' = "done"
    /\ UNCHANGED <<op, args, ipStartNum, ipEndNum, ipCurNum, rangeCollection>>

\* calculate of 0.1.0, lines 66-86: the sentinels, the two conversions, the
\* test for an inverted range.  The locals hold numbers, possibly NaN.
Legacy_calculate_Enter ==
    /\ pc = "call" /\ op = "Legacy_calculate"
    /\ IF Sentinel(args[1]) \/ Sentinel(args[2])
       THEN /\ result' = Null /\ pc' = "done"
            /\ UNCHANGED <<ipStartNum, ipEndNum, ipCurNum>>
       ELSE LET s == Legacy_toDecimal(args[1])
                e == IF IsThrow(s) THEN Throw ELSE Legacy_toDecimal(args[2])
            IN  IF IsThrow(s) \/ IsThrow(e)
                THEN /\ result' = Throw /\ pc' = "done"
                     /\ UNCHANGED <<ipStartNum, ipEndNum, ipCurNum>>
                ELSE /\ ipStartNum' = s /\ ipEndNum' = e
                     /\ IF JsLess(e, s)
                        THEN result' = Null /\ pc' = "done" /\ UNCHANGED ipCurNum
                        ELSE ipCurNum' = s /\ pc' = "loop" /\ UNCHANGED result
    /\ UNCHANGED <<op, args, rangeCollection>>

\* calculate of 0.1.0, lines 88-100: one iteration of the while loop.
Legacy_calculate_Loop ==
    /\ pc = "loop" /\ op = "Legacy_calculate"
    /\ JsLessEq(ipCurNum, ipEndNum)
    /\ LET optimalRange == Legacy_getOptimalRange(ipCurNum.n, ipEndNum.n)
       IN  IF IsNull(optimalRange)
           THEN result' = Null /\ pc' = "done" /\ UNCHANGED <<rangeCollection, ipCurNum>>
           ELSE /\ rangeCollection' = Append(rangeCollection, optimalRange)
                /\ ipCurNum' = Num(optimalRange.ipHigh + 1)
                /\ UNCHANGED <<pc, result>>
    /\ UNCHANGED <<op, args, ipStartNum, ipEndNum>>

\* calculate of 0.1.0, line 102: the loop test fails, the collection is returned.
Legacy_calculate_Return ==
    /\ pc = "loop" /\ op = "Legacy_calculate"
    /\ ~JsLessEq(ipCurNum, ipEndNum)
    /\ result' = Array(rangeCollection)
    /\ pc' = "done"
    /\ UNCHANGED <<op, args, ipStartNum, ipEndNum, ipCurNum, rangeCollection>>

\* calculateSubnetMask of 0.1.0, lines 118-131.
Legacy_calculateSubnetMask ==
    /\ pc = "call" /\ op = "Legacy_calculateSubnetMask"
    /\ result' = IF Sentinel(args[1]) \/ Sentinel(args[2]) THEN Null
                 ELSE LET ipNum == Legacy_toDecimal(args[1])
                      IN  IF IsThrow(ipNum) THEN Throw
                          ELSE Legacy_getMaskRange(ipNum, args[2].n)
    /\ pc' = "done"
    /\ UNCHANGED <<op, args, ipStartNum, ipEndNum, ipCurNum, rangeCollection>>

\* calculateCIDRPrefix of 0.1.0, lines 145-176.
Legacy_calculateCIDRPrefix ==
    /\ pc = "call" /\ op = "Legacy_calculateCIDRPrefix"
    /\ result' = IF Sentinel(args[1]) \/ Sentinel(args[2]) THEN Null
                 ELSE LET ipNum == Legacy_toDecimal(args[1])
                          subnetMaskNum == IF IsThrow(ipNum) THEN Throw
                                           ELSE Legacy_toDecimal(args[2])
                      IN  IF IsThrow(ipNum) \/ IsThrow(subnetMaskNum) THEN Throw
                          ELSE Legacy_getMaskRange(
                                   ipNum,
                                   Legacy_calculateCIDRPrefixLoop(0, 0, subnetMaskNum))
    /\ pc' = "done"
    /\ UNCHANGED <<op, args, ipStartNum, ipEndNum, ipCurNum, rangeCollection>>

\* The state a call starts in.
Entered(f, a, b) ==
    /\ pc = "call" /\ op = f /\ args = <<a, b>>
    /\ ipStartNum = 0 /\ ipEndNum = 0 /\ ipCurNum = 0
    /\ rangeCollection = <<>>
    /\ result = Undefined

(***************************************************************************)
(* Inputs.                                                                 *)
(***************************************************************************)
InputAddr == {a \in Addr : \/ (a % SignBit) < EdgeSpan
                           \/ (a % SignBit) >= SignBit - EdgeSpan}

\* s1 . s2 . s3 . s4
Dotted(g) == g[1] \o <<".">> \o g[2] \o <<".">> \o g[3] \o <<".">> \o g[4]

\* Groups of a dotted string: every octet value in canonical form, forms with
\* leading zeros, a value above the octet range, too many digits, no digit.
CanonicalGroups == {NumberToString(v) : v \in 0 .. OctetBase - 1}
InputGroups == CanonicalGroups
               \cup {<<"0", "0">>, <<"0", "1">>, <<"0", "0", "1">>}
               \cup {NumberToString(OctetBase), <<"0", "0", "0", "0">>, <<>>}

DottedInputs == {Dotted(g) : g \in [1 .. NumOctets -> InputGroups]}

\* Strings that are no dotted address at all.
OtherStrings == { <<>>,
                  <<"h", "e", "l", "l", "o">>,
                  <<"0", ".", "0", ".", "0">>,
                  <<"0", ".", "0", ".", "0", ".", "0", ".", "1">>,
                  <<" ", "0", ".", "0", ".", "0", ".", "0", " ">>,
                  <<"1">> }

\* Values that are neither a dotted address nor an integer of the address range.
MalformedValues == {Str(s) : s \in OtherStrings}
                   \cup {Str(Dotted(<<<<"0">>, <<"0">>, NumberToString(OctetBase), <<"0">>>>))}
                   \cup {Null, False, Undefined, NaN, Num(-1), Frac(1), Num(MaxIp + 1)}

\* Addresses handed to the public functions of the second specification.
ApiAddr == {0, 1, SignBit, MaxIp}
ApiValues == {Num(a) : a \in ApiAddr}
             \cup {toString(Num(a)) : a \in ApiAddr}
             \cup {Str(Dotted(<<<<"0">>, <<"0">>, <<"0">>, <<"0", "1">>>>))}
             \cup MalformedValues
ApiPrefixSizes == -1 .. AddrBits + 1

\* Subnet masks handed to calculateCIDRPrefix: the prefix mask of every prefix
\* size as an integer and as a dotted string, and the input addresses as masks.
ApiMasks == {Num(getPrefixMask(n)) : n \in 0 .. AddrBits}
            \cup {toString(Num(getPrefixMask(n))) : n \in 0 .. AddrBits}
            \cup {Num(m) : m \in InputAddr}

\* Values handed to isIp, isDecimalIp, toDecimal and toString: dotted strings,
\* other strings, integers of the address range, values of other types.
CodecValues == {Str(s) : s \in DottedInputs \cup OtherStrings}
               \cup {Num(a) : a \in InputAddr}
               \cup MalformedValues
               \cup {True, Infinity, Num(-MaxIp), Frac(-1), Frac(MaxIp)}

(***************************************************************************)
(* Spec: calculate on pairs of integer addresses.                          *)
(***************************************************************************)
Init == \E a \in InputAddr, b \in InputAddr : Entered("calculate", Num(a), Num(b))

Next == calculate_Enter \/ calculate_Loop \/ calculate_Return

Spec == Init /\ [][Next]_vars

\* The call runs on until it returns: the code is sequential and nothing else
\* is scheduled.  This is WF_vars(Next) written out, <>[]ENABLED <<Next>>_vars
\* => []<><<Next>>_vars, with ENABLED <<Next>>_vars stated as pc # "done": a
\* step is possible exactly until the call has returned.
Fairness == []<>(pc = "done") \/ []<><<Next>>_vars

SpecFair == Spec /\ Fairness

(***************************************************************************)
(* SpecApi: the public functions on well-formed and malformed values, and  *)
(* getOptimalRange, getPrefixMask and getMask called directly.             *)
(***************************************************************************)
InitApi ==
    \/ \E a \in ApiValues, b \in ApiValues : Entered("calculate", a, b)
    \/ \E a \in ApiValues \cup {Num(i) : i \in InputAddr}, p \in ApiPrefixSizes :
           Entered("calculateSubnetMask", a, Num(p))
    \/ \E a \in ApiValues, m \in ApiValues \cup ApiMasks : Entered("calculateCIDRPrefix", a, m)
    \/ \E a \in InputAddr, b \in InputAddr : Entered("getOptimalRange", Num(a), Num(b))
    \/ \E n \in ApiPrefixSizes : Entered("getPrefixMask", Num(n), Undefined)
    \/ \E n \in ApiPrefixSizes : Entered("getMask", Num(n), Undefined)

NextApi == \/ calculate_Enter \/ calculate_Loop \/ calculate_Return
           \/ calculateSubnetMask
           \/ calculateCIDRPrefix
           \/ getOptimalRange_Call
           \/ getPrefixMask_Call
           \/ getMask_Call

SpecApi == InitApi /\ [][NextApi]_vars

(***************************************************************************)
(* SpecCodec: isIp, isDecimalIp, toDecimal and toString called directly.   *)
(***************************************************************************)
InitCodec ==
    \E f \in {"toDecimal", "toString", "isIp", "isDecimalIp"}, v \in CodecValues :
        Entered(f, v, Undefined)

NextCodec == toDecimal_Call \/ toString_Call \/ isIp_Call \/ isDecimalIp_Call

SpecCodec == InitCodec /\ [][NextCodec]_vars

(***************************************************************************)
(* SpecLegacy: the three public functions of 0.1.0.                        *)
(***************************************************************************)
\* Every input address as a dotted string without leading zeros.
LegacyAddresses == {toString(Num(a)) : a \in InputAddr}

\* Values that are no well-formed address: strings that are no dotted address,
\* an octet out of range, the sentinels, undefined, a number.
LegacyMalformed == {Str(s) : s \in OtherStrings}
                   \cup {Str(Dotted(<<<<"0">>, <<"0">>, NumberToString(OctetBase), <<"0">>>>))}
                   \cup {Null, False, Undefined, Num(1)}

LegacyValues == LegacyAddresses \cup LegacyMalformed
                \cup {Str(Dotted(<<<<"0">>, <<"0">>, <<"0">>, <<"0", "1">>>>))}

InitLegacy ==
    \/ \E a \in LegacyValues, b \in LegacyValues : Entered("Legacy_calculate", a, b)
    \/ \E a \in LegacyValues, p \in ApiPrefixSizes :
           Entered("Legacy_calculateSubnetMask", a, Num(p))
    \/ \E a \in {toString(Num(i)) : i \in ApiAddr} \cup LegacyMalformed,
          m \in LegacyValues \cup {toString(Num(getPrefixMask(n))) : n \in 0 .. AddrBits} :
           Entered("Legacy_calculateCIDRPrefix", a, m)

NextLegacy == \/ Legacy_calculate_Enter \/ Legacy_calculate_Loop \/ Legacy_calculate_Return
              \/ Legacy_calculateSubnetMask
              \/ Legacy_calculateCIDRPrefix

SpecLegacy == InitLegacy /\ [][NextLegacy]_vars

(***************************************************************************)
(* Properties of calculate.                                                *)
(***************************************************************************)
\* Both arguments are integers of the address range.
IntegerArgs == /\ args[1].type = "number" /\ args[1].kind = "int" /\ args[1].n \in Addr
               /\ args[2].type = "number" /\ args[2].kind = "int" /\ args[2].n \in Addr

\* calculate( start, end ) has returned, for integers start <= end.
CalculatedRange == /\ pc = "done" /\ op = "calculate"
                   /\ IntegerArgs /\ args[1].n <= args[2].n

\* The CIDR blocks that start at low and end at or below high: 2^k addresses
\* from a multiple of 2^k, given by their last address.
CidrBlocksFrom(low, high) ==
    {low + Pow2(k) - 1 : k \in {j \in 0 .. AddrBits : /\ low % Pow2(j) = 0
                                                      /\ low + Pow2(j) - 1 <= high}}

\* The least number of CIDR blocks that partition [low, high]: the first block
\* of a partition starts at low, the rest partitions what follows it.  row[i]
\* holds the least number for [high + 1 - i, high].
RECURSIVE MinCoverRow(_, _, _)
MinCoverRow(low, high, row) ==
    LET s == high - Len(row)
        counts == {1 + (IF e = high THEN 0 ELSE row[high - e]) : e \in CidrBlocksFrom(s, high)}
        best == CHOOSE n \in counts : \A m \in counts : n <= m
    IN  IF s < low THEN row ELSE MinCoverRow(low, high, Append(row, best))

MinCover(low, high) == MinCoverRow(low, high, <<>>)[high + 1 - low]

\* C1: for integer addresses start <= end, calculate returns a non-empty array
\* of blocks that begins at start, ends at end, and in which every block
\* starts right after the one before it: ascending, contiguous, without overlap,
\* with union [start, end].
C1_Coverage ==
    CalculatedRange =>
        /\ IsArray(result)
        /\ LET blocks == result.array
           IN  /\ Len(blocks) >= 1
               /\ blocks[1].ipLow = args[1].n
               /\ blocks[Len(blocks)].ipHigh = args[2].n
               /\ \A i \in 1 .. Len(blocks) : blocks[i].ipLow <= blocks[i].ipHigh
               /\ \A i \in 1 .. Len(blocks) - 1 :
                      blocks[i + 1].ipLow = blocks[i].ipHigh + 1

\* A range that needs three blocks or more has been covered.
C1_Witness == CalculatedRange /\ IsArray(result) /\ Len(result.array) >= 3

C3_Alignment ==
    CalculatedRange =>
        /\ IsArray(result)
        /\ \A i \in 1 .. Len(result.array) :
               LET b == result.array[i]
               IN  /\ b.prefixSize \in 0 .. AddrBits
                   /\ BitAnd(b.ipLow, b.prefixMask) = b.ipLow
                   /\ b.ipHigh - b.ipLow + 1 = Pow2(AddrBits - b.prefixSize)

\* A result with a block above the sign bit that is neither one address nor the
\* whole space.
C3_Witness == /\ CalculatedRange /\ IsArray(result)
              /\ \E i \in 1 .. Len(result.array) :
                     /\ result.array[i].ipLow >= SignBit
                     /\ result.array[i].prefixSize \in 1 .. AddrBits - 1

\* C4: for integer addresses with end < start, calculate returns null, without
\* entering its loop and without emitting a block.
C4_InvertedRange ==
    (op = "calculate" /\ IntegerArgs /\ args[2].n < args[1].n /\ pc # "call") =>
        /\ pc = "done"
        /\ IsNull(result)
        /\ rangeCollection = <<>>

\* An inverted range has been answered.
C4_Witness == /\ pc = "done" /\ op = "calculate" /\ IntegerArgs
              /\ args[2].n < args[1].n
              /\ IsNull(result)

(***************************************************************************)
(* Properties of the public functions on malformed arguments.              *)
(***************************************************************************)
\* C5: when an address argument is malformed ('', null, false, undefined, NaN,
\* a negative or fractional number, 4294967296, a string that is no dotted
\* address), calculate (either argument), calculateSubnetMask (the address,
\* with a prefix size in [0, 32]) and calculateCIDRPrefix (either argument)
\* return null: no exception leaves them and calculate's loop is not entered.
C5_CollapsedFailure ==
    (pc # "call" /\
       \/ op = "calculate" /\ (args[1] \in MalformedValues \/ args[2] \in MalformedValues)
       \/ op = "calculateSubnetMask" /\ args[1] \in MalformedValues
                                     /\ args[2].n \in 0 .. AddrBits
       \/ op = "calculateCIDRPrefix" /\ (args[1] \in MalformedValues
                                           \/ args[2] \in MalformedValues))
    => (pc = "done" /\ IsNull(result))

\* calculateCIDRPrefix has answered a well-formed address with a malformed mask.
C5_Witness == /\ pc = "done" /\ op = "calculateCIDRPrefix"
              /\ args[1] = Num(1) /\ args[2] = Num(MaxIp + 1)
              /\ IsNull(result)

\* C6: calculateSubnetMask( ip, prefixSize ) with a well-formed ip and an
\* integer prefixSize outside [0, 32] returns null; it neither throws nor
\* returns a block descriptor.
C6_PrefixOutOfRange ==
    (pc = "done" /\ op = "calculateSubnetMask"
       /\ args[1] \notin MalformedValues
       /\ args[2].n \notin 0 .. AddrBits)
    => IsNull(result)

(***************************************************************************)
(* Properties of calculate's loop.                                         *)
(***************************************************************************)
\* C7: for integer addresses start <= end, also with end at the top of the
\* address space, the loop of calculate ends: the cursor grows with every
\* iteration, after each block it is that block's ipHigh + 1, so 2^32 (not 0)
\* after a block that ends at 4294967295, and the call returns.
C7_Termination ==
    /\ [][(pc = "loop" /\ pc' = "loop") => ipCurNum' > ipCurNum]_vars
    /\ [](pc = "loop" /\ rangeCollection # <<>> =>
            /\ ipCurNum = rangeCollection[Len(rangeCollection)].ipHigh + 1
            /\ (rangeCollection[Len(rangeCollection)].ipHigh = MaxIp => ipCurNum = MaxIp + 1))
    /\ [](pc = "done" /\ IsArray(result) /\ result.array # <<>> =>
            result.array[Len(result.array)].ipHigh = ipEndNum)
    /\ <>(pc = "done")

\* The loop has reached the top of the address space after several blocks: the
\* cursor stands at 2^32.
C7_Witness == /\ pc = "loop" /\ op = "calculate"
              /\ ipEndNum = MaxIp
              /\ Len(rangeCollection) >= 2
              /\ ipCurNum = MaxIp + 1

\* C8 as claimed: calculate returns at most 32 blocks (the address width).
C8_AtMostWidthBlocks ==
    CalculatedRange => (IsArray(result) /\ Len(result.array) <= AddrBits)

\* C8, amended: calculate returns at most 2 * 32 - 2 = 62 blocks (twice the
\* address width less two).
C8_BlockCountBound ==
    CalculatedRange => (IsArray(result) /\ Len(result.array) <= 2 * AddrBits - 2)

\* The bound is met: a range that needs 2 * 32 - 2 blocks.
C8_Witness == /\ CalculatedRange /\ IsArray(result)
              /\ Len(result.array) = 2 * AddrBits - 2

\* C9: a range that is a CIDR block decomposes to that block.  For every
\* address a and prefix size p, with B = getMaskRange( a, p ): getOptimalRange
\* on B's bounds is B and calculate on B's bounds returns B alone.  So
\* calculate( x, x ) is one block of prefix size 32 and calculate on the whole
\* address space is the one block 0.0.0.0/0.
C9_BlockIsItsOwnCover ==
    CalculatedRange =>
        /\ \A a \in InputAddr, p \in 0 .. AddrBits :
               LET B == getMaskRange(a, p)
               IN  (B.ipLow = args[1].n /\ B.ipHigh = args[2].n) =>
                       /\ getOptimalRange(B.ipLow, B.ipHigh) = B
                       /\ result = Array(<<B>>)
        /\ args[1].n = args[2].n =>
               /\ IsArray(result) /\ Len(result.array) = 1
               /\ result.array[1].prefixSize = AddrBits
        /\ (args[1].n = 0 /\ args[2].n = MaxIp) =>
               /\ IsArray(result) /\ Len(result.array) = 1
               /\ result.array[1].prefixSize = 0
               /\ result.array[1].ipLowStr = <<"0", ".", "0", ".", "0", ".", "0">>

\* calculate has returned a block that is neither one address nor the whole
\* space, found from an address inside it.
C9_Witness == /\ CalculatedRange
              /\ \E a \in InputAddr, p \in 1 .. AddrBits - 1 :
                     /\ a # args[1].n
                     /\ getMaskRange(a, p).ipLow = args[1].n
                     /\ getMaskRange(a, p).ipHigh = args[2].n
                     /\ result = Array(<<getMaskRange(a, p)>>)

(***************************************************************************)
(* Properties of toDecimal and toString.                                   *)
(***************************************************************************)
\* No group of the dotted string has a zero before its first digit.
NoLeadingZeros(s) == \A i \in 1 .. Len(Split(s)) :
                         LET g == Split(s)[i]
                         IN  Len(g) = 1 \/ g[1] # "0"

\* C10 as claimed: for every string s that isIp accepts,
\* toString( toDecimal( s ) ) is s.
C10_RoundTripAccepted ==
    (pc = "done" /\ op = "toDecimal" /\ isIp(args[1])) => toString(result) = args[1]

\* C10, amended: for every string s that isIp accepts and whose groups have
\* no leading zero, toString( toDecimal( s ) ) is s.
C10_RoundTripCanonical ==
    (pc = "done" /\ op = "toDecimal" /\ isIp(args[1]) /\ NoLeadingZeros(args[1].s))
    => toString(result) = args[1]

\* toDecimal has converted an accepted string without leading zeros that is
\* not all zeros.
C10_Witness == /\ pc = "done" /\ op = "toDecimal"
               /\ isIp(args[1]) /\ NoLeadingZeros(args[1].s)
               /\ ~IsThrow(result) /\ result.n > OctetBase
               /\ toString(result) = args[1]

\* The four octets of an integer address, highest first.
Octets(n) == <<n \div Pow2(3 * OctetBits),
               (n \div Pow2(2 * OctetBits)) % OctetBase,
               (n \div Pow2(OctetBits)) % OctetBase,
               n % OctetBase>>

\* The value is an integer of the address range.
ValidInteger(v) == v.type = "number" /\ v.kind = "int" /\ v.n \in Addr

\* C11: for every integer n in [0, 4294967295], toString( n ) is the string
\* o1.o2.o3.o4 of n's four octets, each written in decimal without leading
\* zeros, and toDecimal( toString( n ) ) is n; toDecimal of an accepted string
\* a.b.c.d is a * 2^24 + b * 2^16 + c * 2^8 + d.
C11_IntegerRoundTrip ==
    /\ (pc = "done" /\ op = "toString" /\ ValidInteger(args[1])) =>
           /\ result.type = "string"
           /\ LET parts == Split(result.s)
              IN  /\ Len(parts) = NumOctets
                  /\ \A i \in 1 .. NumOctets :
                         /\ parts[i] # <<>>
                         /\ \A j \in 1 .. Len(parts[i]) : parts[i][j] \in DigitChars
                         /\ ParseDigits(parts[i]) = Octets(args[1].n)[i]
                  /\ NoLeadingZeros(result.s)
           /\ toDecimal(result) = args[1]
    /\ (pc = "done" /\ op = "toDecimal" /\ isIp(args[1])) =>
           LET d == Split(args[1].s)
           IN  result = Num(ParseDigits(d[1]) * Pow2(3 * OctetBits)
                            + ParseDigits(d[2]) * Pow2(2 * OctetBits)
                            + ParseDigits(d[3]) * Pow2(OctetBits)
                            + ParseDigits(d[4]))

\* toString has written an integer whose first and last octets differ from the
\* two between them.
C11_Witness == /\ pc = "done" /\ op = "toString" /\ ValidInteger(args[1])
               /\ Octets(args[1].n) = <<OctetBase - 1, 0, 0, 1>>
               /\ result = Str(Dotted(<<NumberToString(OctetBase - 1), <<"0">>, <<"0">>, <<"1">>>>))
               /\ toDecimal(result) = args[1]

\* C12: toDecimal returns an integer of the address range as it is, toString
\* returns a string that isIp accepts as it is; so for a valid address v in
\* either form toDecimal( toDecimal( v ) ) is toDecimal( v ) and
\* toString( toString( v ) ) is toString( v ).
C12_PassThrough ==
    /\ (pc = "done" /\ op = "toDecimal" /\ ValidInteger(args[1])) => result = args[1]
    /\ (pc = "done" /\ op = "toString" /\ isIp(args[1])) => result = args[1]
    /\ (pc = "done" /\ op = "toDecimal" /\ (ValidInteger(args[1]) \/ isIp(args[1]))) =>
           toDecimal(result) = result
    /\ (pc = "done" /\ op = "toString" /\ (ValidInteger(args[1]) \/ isIp(args[1]))) =>
           toString(result) = result

\* toString has returned an accepted string with a leading zero as it is.
C12_Witness == /\ pc = "done" /\ op = "toString"
               /\ isIp(args[1]) /\ ~NoLeadingZeros(args[1].s)
               /\ result = args[1]

\* C13: toDecimal( v ) and toString( v ) throw exactly when v is neither a
\* string that isIp accepts nor a number that isDecimalIp accepts; otherwise
\* toDecimal returns an integer of the address range and toString a dotted
\* string, never NaN, undefined or another default.
C13_ExplicitFailure ==
    (pc = "done" /\ op \in {"toDecimal", "toString"}) =>
        LET valid == isIp(args[1]) \/ isDecimalIp(args[1])
        IN  /\ IsThrow(result) <=> ~valid
            /\ valid => IF op = "toDecimal" THEN ValidInteger(result) ELSE isIp(result)

\* toString has thrown on -1, toDecimal on a string with an octet out of range.
C13_Witness == /\ pc = "done" /\ IsThrow(result)
               /\ \/ op = "toString" /\ args[1] = Num(-1)
                  \/ op = "toDecimal" /\ args[1].type = "string" /\ RegexMatch(args[1].s)

\* C14: for a value of any type isIp and isDecimalIp return a boolean and do
\* not throw; isDecimalIp is true exactly for a number that is an integer in
\* [0, 4294967295]; isIp is false for every value that is no string and for
\* every string that has not four components, has an octet above 255, or
\* begins or ends with a blank.
C14_TotalPredicates ==
    /\ (pc = "done" /\ op \in {"isIp", "isDecimalIp"}) => result \in {True, False}
    /\ (pc = "done" /\ op = "isDecimalIp") => (result = True <=> ValidInteger(args[1]))
    /\ (pc = "done" /\ op = "isIp" /\ args[1].type # "string") => result = False
    /\ (pc = "done" /\ op = "isIp" /\ args[1].type = "string") =>
           LET s == args[1].s
               parts == Split(s)
           IN  (\/ Len(parts) # NumOctets
                \/ \E i \in 1 .. Len(parts) :
                       /\ parts[i] # <<>>
                       /\ \A j \in 1 .. Len(parts[i]) : parts[i][j] \in DigitChars
                       /\ ParseDigits(parts[i]) > OctetBase - 1
                \/ (s # <<>> /\ (s[1] = " " \/ s[Len(s)] = " ")))
               => result = False

\* isIp has rejected a string of four groups of digits for an octet out of range.
C14_Witness == /\ pc = "done" /\ op = "isIp" /\ args[1].type = "string"
               /\ RegexMatch(args[1].s)
               /\ result = False

(***************************************************************************)
(* Properties of the masks and of the block descriptor.                    *)
(***************************************************************************)
\* The value is a well-formed address in either form.
ValidAddress(v) == ValidInteger(v) \/ isIp(v)

\* a | b on unsigned values.
BitOr(a, b) == a + b - BitAnd(a, b)

\* C15: for every well-formed address ip and every n in [0, 32],
\* calculateCIDRPrefix( ip, getPrefixMask( n ) ), the mask given as an integer
\* or as its dotted string, returns the descriptor calculateSubnetMask( ip, n )
\* returns, field for field, with prefixSize n and invertedSize 32 - n.
C15_MaskPrefixAgreement ==
    (pc = "done" /\ op = "calculateCIDRPrefix"
       /\ ValidAddress(args[1]) /\ ValidAddress(args[2])) =>
        \A n \in 0 .. AddrBits :
            toDecimal(args[2]) = Num(getPrefixMask(n)) =>
                /\ result = getMaskRange(toDecimal(args[1]).n, n)
                /\ result.prefixSize = n
                /\ result.invertedSize = AddrBits - n

\* calculateCIDRPrefix has answered the dotted mask of a prefix size that is
\* neither 0 nor 32, for an address with bits below the prefix.
C15_Witness == /\ pc = "done" /\ op = "calculateCIDRPrefix"
               /\ args[1] = Num(MaxIp)
               /\ \E n \in 1 .. AddrBits - 1 :
                      /\ args[2] = toString(Num(getPrefixMask(n)))
                      /\ result = getMaskRange(MaxIp, n)
                      /\ result.ipLow < MaxIp

\* C16: for every integer address a in [0, 4294967295], also a >= 2^31, and
\* every p in [0, 32], the descriptor of a and p has ipLow = a - (a mod
\* 2^(32-p)), ipHigh = ipLow + 2^(32-p) - 1, prefixSize = p, invertedSize =
\* 32 - p; so 0 <= ipLow <= a <= ipHigh <= 4294967295, the block has 2^(32-p)
\* addresses, the bits of ipLow lie in prefixMask, and no value has wrapped.
C16_DescriptorArithmetic ==
    (pc = "done" /\ op = "calculateSubnetMask"
       /\ ValidInteger(args[1]) /\ args[2].n \in 0 .. AddrBits) =>
        LET a == args[1].n
            p == args[2].n
            size == Pow2(AddrBits - p)
        IN  /\ ~IsThrow(result) /\ ~IsNull(result)
            /\ result.ipLow = a - (a % size)
            /\ result.ipHigh = result.ipLow + size - 1
            /\ result.prefixSize = p
            /\ result.invertedSize = AddrBits - p
            /\ 0 <= result.ipLow /\ result.ipLow <= a
            /\ a <= result.ipHigh /\ result.ipHigh <= MaxIp
            /\ result.ipHigh - result.ipLow + 1 = size
            /\ BitAnd(result.ipLow, result.prefixMask) = result.ipLow
            /\ ToUint32(JsAnd(result.ipLow, result.prefixMask)) = result.ipLow
            /\ result.prefixMask \in Addr /\ result.invertedMask \in Addr

\* A descriptor above the sign bit, for an address strictly inside its block.
C16_Witness == /\ pc = "done" /\ op = "calculateSubnetMask"
               /\ ValidInteger(args[1]) /\ args[2].n \in 1 .. AddrBits - 1
               /\ ~IsThrow(result) /\ ~IsNull(result)
               /\ result.ipLow >= SignBit
               /\ result.ipLow < args[1].n /\ args[1].n < result.ipHigh

\* C17: for every n in [0, 32], getPrefixMask( n ) = 2^32 - 2^(32-n) (the top
\* n bits; 0 for n = 0, 4294967295 for n = 32), getMask( n ) = 2^n - 1 (the
\* bottom n bits), and getPrefixMask( n ) with getMask( 32 - n ) has every bit
\* in exactly one of the two.
C17_MaskComplement ==
    /\ (pc = "done" /\ op = "getPrefixMask" /\ args[1].n \in 0 .. AddrBits) =>
           LET n == args[1].n
           IN  /\ result = Num(Modulus - Pow2(AddrBits - n))
               /\ n = 0 => result = Num(0)
               /\ n = AddrBits => result = Num(MaxIp)
               /\ BitOr(result.n, getMask(AddrBits - n)) = MaxIp
               /\ BitAnd(result.n, getMask(AddrBits - n)) = 0
    /\ (pc = "done" /\ op = "getMask" /\ args[1].n \in 0 .. AddrBits) =>
           result = Num(Pow2(args[1].n) - 1)

\* getPrefixMask has built the mask of all bits but the lowest.
C17_Witness == /\ pc = "done" /\ op = "getPrefixMask"
               /\ args[1] = Num(AddrBits - 1)
               /\ result = Num(MaxIp - 1)

\* The integer value of a well-formed address.
Value(v) == toDecimal(v).n

\* C18: the results of calculate, calculateSubnetMask and calculateCIDRPrefix
\* are functions of the integer values of their address arguments alone: a
\* dotted string s and the integer toDecimal( s ), in any mix, give the same
\* result.  Each result is stated from the integer values only.
C18_RepresentationIndependence ==
    /\ (pc = "done" /\ op = "calculate"
          /\ ValidAddress(args[1]) /\ ValidAddress(args[2])) =>
           LET S == Value(args[1])
               E == Value(args[2])
           IN  IF E < S THEN IsNull(result)
               ELSE /\ IsArray(result)
                    /\ Len(result.array) >= 1
                    /\ result.array[1] = getOptimalRange(S, E)
                    /\ \A i \in 1 .. Len(result.array) - 1 :
                           result.array[i + 1] =
                               getOptimalRange(result.array[i].ipHigh + 1, E)
                    /\ result.array[Len(result.array)].ipHigh = E
    /\ (pc = "done" /\ op = "calculateSubnetMask" /\ ValidAddress(args[1])) =>
           result = getMaskRange(Value(args[1]), args[2].n)
    /\ (pc = "done" /\ op = "calculateCIDRPrefix"
          /\ ValidAddress(args[1]) /\ ValidAddress(args[2])) =>
           result = getMaskRange(Value(args[1]),
                                 calculateCIDRPrefixLoop(0, 0, Value(args[2])))

\* calculateCIDRPrefix has answered an integer address with a mask given as a
\* string, with a prefix size above 0.
C18_Witness == /\ pc = "done" /\ op = "calculateCIDRPrefix"
               /\ ValidInteger(args[1]) /\ isIp(args[2])
               /\ ~IsNull(result)
               /\ result.prefixSize > 0
               /\ result.ipLow = BitAnd(args[1].n, Value(args[2]))

(***************************************************************************)
(* Properties of getOptimalRange.                                          *)
(***************************************************************************)
\* The prefix sizes whose block from low starts at low and ends at or below
\* high.
QualifyingPrefixSizes(low, high) ==
    {p \in 0 .. AddrBits : /\ getMaskRange(low, p).ipLow = low
                           /\ getMaskRange(low, p).ipHigh <= high}

\* C19: for integer addresses ipNum <= ipEndNum, getOptimalRange returns the
\* block whose prefix size is the least of ALL prefix sizes p in [0, 32] with
\* getMaskRange( ipNum, p ).ipLow = ipNum and .ipHigh <= ipEndNum: no smaller
\* qualifying prefix size lies below the point where the descent stopped.
C19_EarlyExitOptimal ==
    (pc = "done" /\ op = "getOptimalRange" /\ args[1].n <= args[2].n) =>
        LET Q == QualifyingPrefixSizes(args[1].n, args[2].n)
        IN  /\ Q # {}
            /\ \E p \in Q : /\ \A q \in Q : p <= q
                            /\ result = getMaskRange(args[1].n, p)

\* The descent has passed several prefix sizes and stopped for the end of the
\* range, above prefix size 0.
C19_Witness == /\ pc = "done" /\ op = "getOptimalRange"
               /\ args[1] = Num(0) /\ args[2].n < MaxIp
               /\ Cardinality(QualifyingPrefixSizes(0, args[2].n)) >= 3
               /\ result = getMaskRange(0, AddrBits - 2)

\* C20: over integer addresses getOptimalRange( ipNum, ipEndNum ) returns null
\* if and only if ipNum > ipEndNum; for ipNum <= ipEndNum it returns a block
\* with ipLow = ipNum, so calculate does not return null for well-formed
\* start <= end.
C20_NullOnlyWhenInverted ==
    /\ (pc = "done" /\ op = "getOptimalRange") =>
           /\ IsNull(result) <=> args[1].n > args[2].n
           /\ args[1].n <= args[2].n => (~IsThrow(result) /\ result.ipLow = args[1].n)
    /\ (pc = "done" /\ op = "calculate"
          /\ ValidAddress(args[1]) /\ ValidAddress(args[2])
          /\ Value(args[1]) <= Value(args[2])) =>
           (~IsNull(result) /\ IsArray(result))

\* getOptimalRange has returned null for a start above the end.
C20_Witness == /\ pc = "done" /\ op = "getOptimalRange"
               /\ args[1].n > args[2].n
               /\ IsNull(result)

(***************************************************************************)
(* Properties of calculateCIDRPrefix's search for the prefix size.         *)
(***************************************************************************)
\* The number of consecutive one-bits at the top of m, counted from bit
\* position `bit` downwards.
RECURSIVE LeadingOnesFrom(_, _)
LeadingOnesFrom(m, bit) ==
    IF bit < 0 \/ (m \div Pow2(bit)) % 2 = 0 THEN 0
    ELSE 1 + LeadingOnesFrom(m, bit - 1)

LeadingOnes(m) == LeadingOnesFrom(m, AddrBits - 1)

\* The number of one-bits of m.
RECURSIVE OneBits(_)
OneBits(m) == IF m = 0 THEN 0 ELSE (m % 2) + OneBits(m \div 2)

\* The top p bits, as a value: 2^32 - 2^(32-p).
TopBits(p) == Modulus - Pow2(AddrBits - p)

\* calculateCIDRPrefix( ip, m ) has returned, for a well-formed address and an
\* integer mask of the address range.
InferredFromInteger == /\ pc = "done" /\ op = "calculateCIDRPrefix"
                       /\ ValidAddress(args[1]) /\ ValidInteger(args[2])

\* C21: for every well-formed address ip and every mask value m in
\* [0, 4294967295], calculateCIDRPrefix( ip, m ) returns a descriptor, not
\* null, whose prefixSize is the largest p in [0, 32] with
\* (m & getPrefixMask( p )) = getPrefixMask( p ): the number of consecutive
\* one-bits at the top of m, whatever bits are set below that run.
C21_PrefixIgnoresLowerBits ==
    InferredFromInteger =>
        LET m == args[2].n
            P == {p \in 0 .. AddrBits : BitAnd(m, getPrefixMask(p)) = getPrefixMask(p)}
        IN  /\ ~IsNull(result) /\ ~IsThrow(result)
            /\ result.prefixSize \in P
            /\ \A p \in P : p <= result.prefixSize
            /\ \A p \in 0 .. AddrBits : getPrefixMask(p) = TopBits(p)
            /\ result.prefixSize = LeadingOnes(m)
            /\ result = getMaskRange(Value(args[1]), LeadingOnes(m))

\* A mask with one leading one-bit and a stray lowest bit has given prefix size 1.
C21_Witness == /\ InferredFromInteger
               /\ args[2] = Num(SignBit + 1)
               /\ ~IsNull(result) /\ ~IsThrow(result)
               /\ result.prefixSize = 1

\* The mask is no prefix mask: it has a one-bit below its leading run.
MalformedMask(m) == m # TopBits(LeadingOnes(m))

\* C22 as claimed: for a mask that is not of the form getPrefixMask( n ),
\* calculateCIDRPrefix returns, without null or exception, a prefix length
\* shorter than the mask's leading run of one-bits.
C22_ShorterThanLeadingRun ==
    (InferredFromInteger /\ MalformedMask(args[2].n)) =>
        /\ ~IsNull(result) /\ ~IsThrow(result)
        /\ result.prefixSize < LeadingOnes(args[2].n)

\* C22, amended: for a mask that is not of the form getPrefixMask( n ),
\* calculateCIDRPrefix returns, without null or exception, a prefix length
\* equal to the mask's leading run of one-bits, which is shorter than the
\* number of one-bits of the mask.
C22_EqualsLeadingRun ==
    (InferredFromInteger /\ MalformedMask(args[2].n)) =>
        /\ ~IsNull(result) /\ ~IsThrow(result)
        /\ result.prefixSize = LeadingOnes(args[2].n)
        /\ result.prefixSize < OneBits(args[2].n)

\* A mask with a gap (all bits but the second lowest) has been answered with
\* the length of its leading run.
C22_Witness == /\ InferredFromInteger
               /\ args[2] = Num(MaxIp - 2)
               /\ MalformedMask(MaxIp - 2)
               /\ ~IsNull(result) /\ ~IsThrow(result)
               /\ result.prefixSize = AddrBits - 2

(***************************************************************************)
(* Properties of IpSubnetCalculator 0.1.0.                                 *)
(***************************************************************************)
\* C23: calculate of 0.1.0 returns null in case of an error: when at least one
\* argument is not a well-formed dotted address ('hello', '1.2.3', the
\* sentinels '', null, false), the result is null, not an array (not even an
\* empty one) and not a value built from NaN.
C23_LegacyNullOnError ==
    (pc = "done" /\ op = "Legacy_calculate"
       /\ \A i \in 1 .. 2 : (args[i].type = "string" \/ Sentinel(args[i]))
       /\ (~isIp(args[1]) \/ ~isIp(args[2])))
    => IsNull(result)

\* The value is a dotted string with every octet in range and no leading zero.
Canonical(v) == isIp(v) /\ NoLeadingZeros(v.s)

\* C24: on dotted strings with every octet in 0..255 and no leading zeros the
\* functions of 0.1.0 return what those of 1.1.0 return: calculate is null
\* when the range is inverted and otherwise the same sequence of blocks, field
\* by field; calculateSubnetMask for p in [0, 32] and calculateCIDRPrefix
\* return the same descriptor.  The result of 1.1.0 is stated from its own
\* functions toDecimal, getOptimalRange, getMaskRange and the search of
\* calculateCIDRPrefix.
C24_LegacyAgreesOnValidInput ==
    /\ (pc = "done" /\ op = "Legacy_calculate"
          /\ Canonical(args[1]) /\ Canonical(args[2])) =>
           LET S == Value(args[1])
               E == Value(args[2])
           IN  IF E < S THEN IsNull(result)
               ELSE /\ IsArray(result)
                    /\ Len(result.array) >= 1
                    /\ result.array[1] = getOptimalRange(S, E)
                    /\ \A i \in 1 .. Len(result.array) - 1 :
                           result.array[i + 1] =
                               getOptimalRange(result.array[i].ipHigh + 1, E)
                    /\ result.array[Len(result.array)].ipHigh = E
    /\ (pc = "done" /\ op = "Legacy_calculateSubnetMask"
          /\ Canonical(args[1]) /\ args[2].n \in 0 .. AddrBits) =>
           result = getMaskRange(Value(args[1]), args[2].n)
    /\ (pc = "done" /\ op = "Legacy_calculateCIDRPrefix"
          /\ Canonical(args[1]) /\ Canonical(args[2])) =>
           result = getMaskRange(Value(args[1]),
                                 calculateCIDRPrefixLoop(0, 0, Value(args[2])))

\* calculate of 0.1.0 has covered a range of well-formed strings that needs
\* three blocks or more.
C24_Witness == /\ pc = "done" /\ op = "Legacy_calculate"
               /\ Canonical(args[1]) /\ Canonical(args[2])
               /\ IsArray(result) /\ Len(result.array) >= 3
               /\ result.array[1] = getOptimalRange(Value(args[1]), Value(args[2]))

====
